---- MODULE Spec2Model ----
(***************************************************************************)
(* AlogVision backend: the chunk planner (token_manager.py), the /explain/ *)
(* request handler (main.py) and the structural analyzer                   *)
(* (code_analyzer.py), each as a state machine of its own specification:   *)
(* SpecChunk, SpecExplain and SpecAnalyze.                                 *)
(***************************************************************************)
EXTENDS Integers, Sequences, FiniteSets, TLC

VARIABLES
    \* ---- chunk planner: TokenManager.chunk_code_intelligently ----
    line_tokens,           \* code.splitlines(): the token count of each line, 0 for an empty string
    body,                  \* tree.body: the top-level nodes, in source order
    parseable,             \* whether ast.parse(code) succeeds
    max_tokens,            \* self.max_tokens
    join_tokens,           \* tokens the estimator counts for a "\n" between two lines
    cpc,                   \* position inside chunk_code_intelligently
    node_idx,              \* position of the for loop over tree.body
    chunks,                \* local: chunks
    current_chunk_lines,   \* local: current_chunk_lines
    current_chunk_tokens,  \* local: current_chunk_tokens
    est_failed,            \* which estimate_tokens call raised, if any
    outcome,               \* how the call ended
    returned,              \* the list the call returned (<<>> when it raised)
    \* ---- /explain/ handler: main.explain_code ----
    syntax_ok,             \* whether ast.parse(request.code) succeeds
    api_key,               \* os.getenv("GEMINI_API_KEY"): "unset", "empty" or "set"
    code_tokens,           \* the estimator's count for request.code
    estimator_up,          \* whether the estimator answers the handler's size check
    user_purpose,          \* request.purpose: "None", "empty" (the string "") or "text"
    hpc,                   \* position inside explain_code
    checks_run,            \* the checks evaluated so far, in order
    calls,                 \* the pipeline stages invoked so far, each with its result
    structured_purpose,    \* local: structured_purpose
    match_report,          \* local: match_report
    explainer_args,        \* what generate_explanation received
    raised,                \* the exception the pipeline's try block caught
    response,              \* the HTTP response
    \* ---- structural analyzer: CodeAnalyzer ----
    src_lines,             \* code_string.splitlines(): the class of each physical line
    tree,                  \* the statement nodes of the parsed tree, in depth-first order
    open_defs,             \* the definitions whose body the parser is still inside
    apc,                   \* position: "build", "ready" (constructed), "done"
    hash_seed,             \* the process's string-hash seed (PYTHONHASHSEED)
    temp_line_data,        \* self._temp_line_data: line number -> types
    analysis,              \* self.analysis
    run_no,                \* which analysis of this source is running: 1 or 2
    first_result           \* what the first analyze() returned

chunkVars == <<line_tokens, body, parseable, max_tokens, join_tokens, cpc, node_idx,
               chunks, current_chunk_lines, current_chunk_tokens, est_failed,
               outcome, returned>>

explainVars == <<syntax_ok, api_key, code_tokens, estimator_up, user_purpose, hpc,
                 checks_run, calls, structured_purpose, match_report, explainer_args,
                 raised, response>>

analyzeVars == <<src_lines, tree, open_defs, apc, hash_seed, temp_line_data, analysis,
                 run_no, first_result>>

vars == <<chunkVars, explainVars, analyzeVars>>

(***************************************************************************)
(* Bounds of the model.                                                    *)
(***************************************************************************)
MaxLines == 3
MaxLineTokens == 2
MaxBudget == 4

\* the block size of the naive fallback
NaiveBlock == 100

\* line counts of the unparseable inputs that exercise the naive fallback
LongInputs == {NaiveBlock - 1, NaiveBlock, NaiveBlock + 1, 2 * NaiveBlock, 2 * NaiveBlock + 1}

\* the sum of s[lo..hi], by halves
RECURSIVE SumRange(_, _, _)
SumRange(s, lo, hi) ==
    IF lo > hi THEN 0
    ELSE IF lo = hi THEN s[lo]
    ELSE LET mid == (lo + hi) \div 2
         IN  SumRange(s, lo, mid) + SumRange(s, mid + 1, hi)

SumSeq(s) == SumRange(s, 1, Len(s))

RECURSIVE Flatten(_)
Flatten(ss) == IF ss = <<>> THEN <<>> ELSE Head(ss) \o Flatten(Tail(ss))

Min(a, b) == IF a <= b THEN a ELSE b

\* lines[a:b] of a Python list (0-based, end exclusive), as 1-based line numbers
Slice(n, a, b) == [i \in 1..(Min(b, n) - a) |-> a + i]

\* code.splitlines(): a text is the sequence of the numbers of its lines
Lines == [i \in 1..Len(line_tokens) |-> i]

(***************************************************************************)
(* The size estimator (Gemini count_tokens) is an external collaborator:   *)
(* a text's estimate is the tokens of its lines plus what the estimator    *)
(* counts for each newline joining them.                                   *)
(***************************************************************************)
estimate_tokens(text) ==
    IF text = <<>> THEN 0
    ELSE SumSeq([i \in 1..Len(text) |-> line_tokens[text[i]]])
         + join_tokens * (Len(text) - 1)

\* the lines of a node: lines[node.lineno - 1 : node.end_lineno]
node_lines(node) == Slice(Len(line_tokens), node.lineno - 1, node.end_lineno)

(***************************************************************************)
(* Inputs: a top-level node has the line of its first token (`first`, a    *)
(* decorator line when the statement is decorated), node.lineno (the line  *)
(* of `def` for a decorated definition) and node.end_lineno.  Two simple   *)
(* statements joined by `;` share a line.                                  *)
(* str.splitlines() also ends a line at a form feed, the parser does not:  *)
(* for `a = 1\f` followed by a newline splitlines() yields the line        *)
(* `a = 1` and an empty string, which the parser does not count.  A line   *)
(* of 0 tokens is such an empty string; the line numbers of the nodes are  *)
(* the parser's.                                                           *)
(***************************************************************************)
\* the lines of the input that the parser counts, in order
ParserLines(lt) ==
    LET Counted(i) == lt[i] # 0
    IN  SelectSeq([i \in 1..Len(lt) |-> i], Counted)

\* the inputs' lines: at most one form feed, at the end of a line of code
LineTokensOver(n) ==
    { lt \in [1..n -> 0..MaxLineTokens] :
        /\ lt[1] # 0
        /\ Cardinality({ i \in 1..n : lt[i] = 0 }) <= 1 }

WellFormedNode(nd) ==
    /\ nd.first <= nd.lineno
    /\ nd.lineno <= nd.first + 1
    /\ nd.lineno <= nd.end_lineno

NodesOver(n) ==
    { nd \in [first : 1..n, lineno : 1..n, end_lineno : 1..n] : WellFormedNode(nd) }

\* source order; a statement starts on its predecessor's last line only when
\* both are simple statements of that one line
Follows(prev, nd) ==
    \/ nd.first > prev.end_lineno
    \/ /\ nd.first = prev.end_lineno
       /\ prev.first = prev.end_lineno
       /\ nd.end_lineno = nd.first

\* the bodies of at most k statements over n lines
RECURSIVE BodiesUpTo(_, _)
BodiesUpTo(n, k) ==
    IF k = 0 THEN {<<>>}
    ELSE LET shorter == BodiesUpTo(n, k - 1)
             longest == { x \in shorter : Len(x) = k - 1 }
             Fits(b, nd) == b = <<>> \/ Follows(b[Len(b)], nd)
         IN  shorter \cup
             UNION { { Append(b, nd) : nd \in { x \in NodesOver(n) : Fits(b, x) } } :
                     b \in longest }

BodiesOver(n) == BodiesUpTo(n, n)

ChunkInit ==
    /\ \E n \in 1..MaxLines :
          /\ line_tokens \in LineTokensOver(n)
          /\ parseable \in BOOLEAN
          /\ body \in (IF parseable THEN BodiesOver(Len(ParserLines(line_tokens))) ELSE {<<>>})
    /\ max_tokens \in 1..MaxBudget
    /\ join_tokens \in {0, 1}
    /\ cpc = "start"
    /\ node_idx = 0
    /\ chunks = <<>>
    /\ current_chunk_lines = <<>>
    /\ current_chunk_tokens = 0
    /\ est_failed = "none"
    /\ outcome = "running"
    /\ returned = <<>>

LongInit ==
    /\ \E n \in LongInputs : line_tokens = [i \in 1..n |-> 1]
    /\ parseable = FALSE
    /\ body = <<>>
    /\ max_tokens \in 1..MaxBudget
    /\ join_tokens \in {0, 1}
    /\ cpc = "start"
    /\ node_idx = 0
    /\ chunks = <<>>
    /\ current_chunk_lines = <<>>
    /\ current_chunk_tokens = 0
    /\ est_failed = "none"
    /\ outcome = "running"
    /\ returned = <<>>

\* the handler is not running in the chunk planner's specification
ExplainIdle ==
    /\ syntax_ok = TRUE
    /\ api_key = "set"
    /\ code_tokens = 0
    /\ estimator_up = TRUE
    /\ user_purpose = "None"
    /\ hpc = "idle"
    /\ checks_run = <<>>
    /\ calls = <<>>
    /\ structured_purpose = "None"
    /\ match_report = "None"
    /\ explainer_args = <<>>
    /\ raised = [kind |-> "none", msg |-> "none"]
    /\ response = [status |-> 0, detail |-> "none", msg |-> "none"]

EmptyAnalysis ==
    [high_level_summary |-> <<>>, functions |-> <<>>, line_by_line |-> <<>>]

\* no analyzer exists in the chunk planner's and the handler's specifications
AnalyzeIdle ==
    /\ src_lines = <<>>
    /\ tree = <<>>
    /\ open_defs = <<>>
    /\ apc = "idle"
    /\ hash_seed = 0
    /\ temp_line_data = <<>>
    /\ analysis = EmptyAnalysis
    /\ run_no = 0
    /\ first_result = EmptyAnalysis

InitChunk == (ChunkInit \/ LongInit) /\ ExplainIdle /\ AnalyzeIdle

(***************************************************************************)
(* chunk_code_intelligently, first statement: validate_input_size(code).   *)
(* validate_input_size answers a TokenManagerError of estimate_tokens with *)
(* `raise HTTPException(...)`, a name token_manager.py never imports: the  *)
(* raise statement itself raises NameError, outside the try block of       *)
(* chunk_code_intelligently.                                               *)
(***************************************************************************)
ValidateRaises ==
    /\ cpc = "start"
    /\ est_failed' = "whole"
    /\ outcome' = "NameError"
    /\ returned' = <<>>
    /\ cpc' = "done"
    /\ UNCHANGED <<line_tokens, body, parseable, max_tokens, join_tokens, node_idx,
                   chunks, current_chunk_lines, current_chunk_tokens>>

ValidateWithin ==
    /\ cpc = "start"
    /\ estimate_tokens(Lines) <= max_tokens
    /\ outcome' = "single"
    /\ returned' = <<Lines>>
    /\ cpc' = "done"
    /\ UNCHANGED <<line_tokens, body, parseable, max_tokens, join_tokens, node_idx,
                   chunks, current_chunk_lines, current_chunk_tokens, est_failed>>

\* ValidateExceeds without the early `return [code]` of the within-budget
\* case: the planner goes on to parse whatever validate_input_size answered
ValidateExceeds_Always ==
    /\ cpc = "start"
    /\ cpc' = "parse"
    /\ UNCHANGED <<line_tokens, body, parseable, max_tokens, join_tokens, node_idx,
                   chunks, current_chunk_lines, current_chunk_tokens, est_failed,
                   outcome, returned>>

ValidateExceeds ==
    /\ cpc = "start"
    /\ ~(estimate_tokens(Lines) <= max_tokens)
    /\ cpc' = "parse"
    /\ UNCHANGED <<line_tokens, body, parseable, max_tokens, join_tokens, node_idx,
                   chunks, current_chunk_lines, current_chunk_tokens, est_failed,
                   outcome, returned>>

\* tree = ast.parse(code) succeeds: the loop's locals are initialised
ParseOk ==
    /\ cpc = "parse"
    /\ parseable
    /\ chunks' = <<>>
    /\ current_chunk_lines' = <<>>
    /\ current_chunk_tokens' = 0
    /\ node_idx' = 1
    /\ cpc' = "loop"
    /\ UNCHANGED <<line_tokens, body, parseable, max_tokens, join_tokens, est_failed,
                   outcome, returned>>

\* NaiveChunks without the slicing: all the lines in one block
NaiveChunks_OneBlock == <<Lines>>

\* except SyntaxError: naive blocks of NaiveBlock lines
NaiveChunks ==
    LET n == Len(line_tokens)
        k == (n + NaiveBlock - 1) \div NaiveBlock
    IN  [j \in 1..k |-> Slice(n, (j - 1) * NaiveBlock, j * NaiveBlock)]

ParseFails ==
    /\ cpc = "parse"
    /\ ~parseable
    /\ outcome' = "naive"
    /\ returned' = NaiveChunks
    /\ cpc' = "done"
    /\ UNCHANGED <<line_tokens, body, parseable, max_tokens, join_tokens, node_idx,
                   chunks, current_chunk_lines, current_chunk_tokens, est_failed>>

\* one iteration of `for node in tree.body` whose estimate_tokens(node_text) raises:
\* except TokenManagerError re-raises TokenManagerError; the locals are lost
NodeEstimateRaises ==
    /\ cpc = "loop"
    /\ node_idx <= Len(body)
    /\ est_failed' = "unit"
    /\ outcome' = "TokenManagerError"
    /\ returned' = <<>>
    /\ cpc' = "done"
    /\ UNCHANGED <<line_tokens, body, parseable, max_tokens, join_tokens, node_idx,
                   chunks, current_chunk_lines, current_chunk_tokens>>

\* the list `chunks` after `if current_chunk_lines: chunks.append(...)`
Flushed == IF current_chunk_lines # <<>> THEN Append(chunks, current_chunk_lines) ELSE chunks

\* one iteration of the loop, node_tokens > self.max_tokens
NodeOversized ==
    /\ cpc = "loop"
    /\ node_idx <= Len(body)
    /\ LET nl == node_lines(body[node_idx])
           node_tokens == estimate_tokens(nl)
       IN  /\ node_tokens > max_tokens
           /\ chunks' = Append(Flushed, nl)
           /\ current_chunk_lines' = <<>>
           /\ current_chunk_tokens' = 0
    /\ node_idx' = node_idx + 1
    /\ UNCHANGED <<line_tokens, body, parseable, max_tokens, join_tokens, cpc,
                   est_failed, outcome, returned>>

\* one iteration of the loop, the node fits: flush first when adding it would
\* exceed the limit, then extend the pending chunk
NodeFits ==
    /\ cpc = "loop"
    /\ node_idx <= Len(body)
    /\ LET nl == node_lines(body[node_idx])
           node_tokens == estimate_tokens(nl)
           flush == current_chunk_tokens + node_tokens > max_tokens
                    /\ current_chunk_lines # <<>>
       IN  /\ ~(node_tokens > max_tokens)
           /\ chunks' = IF flush THEN Append(chunks, current_chunk_lines) ELSE chunks
           /\ current_chunk_lines' = (IF flush THEN <<>> ELSE current_chunk_lines) \o nl
           /\ current_chunk_tokens' = (IF flush THEN 0 ELSE current_chunk_tokens) + node_tokens
    /\ node_idx' = node_idx + 1
    /\ UNCHANGED <<line_tokens, body, parseable, max_tokens, join_tokens, cpc,
                   est_failed, outcome, returned>>

\* after the loop: add the last remaining chunk and return
LoopEnd ==
    /\ cpc = "loop"
    /\ node_idx > Len(body)
    /\ chunks' = Flushed
    /\ returned' = Flushed
    /\ outcome' = "intelligent"
    /\ cpc' = "done"
    /\ UNCHANGED <<line_tokens, body, parseable, max_tokens, join_tokens, node_idx,
                   current_chunk_lines, current_chunk_tokens, est_failed>>

NextChunk ==
    \/ ValidateRaises /\ UNCHANGED <<explainVars, analyzeVars>>
    \/ ValidateWithin /\ UNCHANGED <<explainVars, analyzeVars>>
    \/ ValidateExceeds /\ UNCHANGED <<explainVars, analyzeVars>>
    \/ ParseOk /\ UNCHANGED <<explainVars, analyzeVars>>
    \/ ParseFails /\ UNCHANGED <<explainVars, analyzeVars>>
    \/ NodeEstimateRaises /\ UNCHANGED <<explainVars, analyzeVars>>
    \/ NodeOversized /\ UNCHANGED <<explainVars, analyzeVars>>
    \/ NodeFits /\ UNCHANGED <<explainVars, analyzeVars>>
    \/ LoopEnd /\ UNCHANGED <<explainVars, analyzeVars>>

SpecChunk == InitChunk /\ [][NextChunk]_vars

(***************************************************************************)
(* The /explain/ handler, main.explain_code.                               *)
(***************************************************************************)
\* messages an exception of the pipeline may carry
Msgs == {"m1", "m2"}

\* the handler has no chunk planner call in flight
ChunkIdle ==
    /\ line_tokens = <<>>
    /\ body = <<>>
    /\ parseable = TRUE
    /\ join_tokens = 0
    /\ cpc = "idle"
    /\ node_idx = 0
    /\ chunks = <<>>
    /\ current_chunk_lines = <<>>
    /\ current_chunk_tokens = 0
    /\ est_failed = "none"
    /\ outcome = "idle"
    /\ returned = <<>>

InitExplain ==
    /\ ChunkIdle
    /\ AnalyzeIdle
    /\ max_tokens \in 1..MaxBudget
    /\ syntax_ok \in BOOLEAN
    /\ api_key \in {"unset", "empty", "set"}
    /\ code_tokens \in {max_tokens, max_tokens + 1}
    /\ estimator_up \in BOOLEAN
    /\ user_purpose \in {"None", "empty", "text"}
    /\ hpc = "syntax"
    /\ checks_run = <<>>
    /\ calls = <<>>
    /\ structured_purpose = "None"
    /\ match_report = "None"
    /\ explainer_args = <<>>
    /\ raised = [kind |-> "none", msg |-> "none"]
    /\ response = [status |-> 0, detail |-> "none", msg |-> "none"]

\* Python truthiness of a `str | None` value
Truthy(v) == v \notin {"None", "unset", "empty"}

\* TokenManager.validate_input_size: "True", "False", or the NameError of its
\* except clause (`raise HTTPException`, a name the module does not import)
validate_input_size(up, token_count) ==
    IF ~up THEN "NameError"
    ELSE IF token_count <= max_tokens THEN "True" ELSE "False"

\* 1. Validate Code Syntax
CheckSyntax ==
    /\ hpc = "syntax"
    /\ checks_run' = Append(checks_run, "syntax")
    /\ IF syntax_ok
       THEN /\ hpc' = "apikey"
            /\ UNCHANGED response
       ELSE /\ hpc' = "done"
            /\ response' = [status |-> 400, detail |-> "Invalid Python Code Syntax",
                            msg |-> "SyntaxError"]
    /\ UNCHANGED <<syntax_ok, api_key, code_tokens, estimator_up, user_purpose, calls,
                   structured_purpose, match_report, explainer_args, raised>>

\* CheckApiKey testing `is None` instead of truthiness: an empty key passes
CheckApiKey_NoneOnly ==
    /\ hpc = "apikey"
    /\ checks_run' = Append(checks_run, "apikey")
    /\ IF api_key # "unset"
       THEN /\ hpc' = "size"
            /\ UNCHANGED response
       ELSE /\ hpc' = "done"
            /\ response' = [status |-> 500,
                            detail |-> "API key is not configured on the server. Please set GEMINI_API_KEY.",
                            msg |-> "none"]
    /\ UNCHANGED <<syntax_ok, api_key, code_tokens, estimator_up, user_purpose, calls,
                   structured_purpose, match_report, explainer_args, raised>>

\* 2. Validate API Key is available on the server
CheckApiKey ==
    /\ hpc = "apikey"
    /\ checks_run' = Append(checks_run, "apikey")
    /\ IF Truthy(api_key)
       THEN /\ hpc' = "size"
            /\ UNCHANGED response
       ELSE /\ hpc' = "done"
            /\ response' = [status |-> 500,
                            detail |-> "API key is not configured on the server. Please set GEMINI_API_KEY.",
                            msg |-> "none"]
    /\ UNCHANGED <<syntax_ok, api_key, code_tokens, estimator_up, user_purpose, calls,
                   structured_purpose, match_report, explainer_args, raised>>

\* NextStage without the call of the matcher
NextStage_SkipMatcher(stage) ==
    CASE stage = "analysis"  -> IF Truthy(user_purpose) THEN "purpose" ELSE "explainer"
      [] stage = "purpose"   -> "explainer"
      [] stage = "matcher"   -> "explainer"
      [] stage = "explainer" -> "done"

\* the stage that follows `stage` in the try block
NextStage(stage) ==
    CASE stage = "analysis"  -> IF Truthy(user_purpose) THEN "purpose" ELSE "explainer"
      [] stage = "purpose"   -> "matcher"
      [] stage = "matcher"   -> "explainer"
      [] stage = "explainer" -> "done"

\* 3. Validate Input Size; an exception of validate_input_size is raised outside
\* the try block and leaves the handler unhandled (the framework answers 500)
CheckSize ==
    /\ hpc = "size"
    /\ checks_run' = Append(checks_run, "size")
    /\ LET v == validate_input_size(estimator_up, code_tokens)
       IN  CASE v = "True"  -> /\ hpc' = "analysis"
                               /\ UNCHANGED response
             [] v = "False" -> /\ hpc' = "done"
                               /\ response' = [status |-> 413,
                                               detail |-> "Input code exceeds the maximum allowed size.",
                                               msg |-> "none"]
             [] OTHER       -> /\ hpc' = "done"
                               /\ response' = [status |-> 500,
                                               detail |-> "Internal Server Error",
                                               msg |-> "none"]
    /\ UNCHANGED <<syntax_ok, api_key, code_tokens, estimator_up, user_purpose, calls,
                   structured_purpose, match_report, explainer_args, raised>>

\* ExceptionResponse with `except Exception` placed first: every failure is a 500
ExceptionResponse_AllUnexpected(kind, m) ==
    [status |-> 500, detail |-> "An unexpected server error occurred: ", msg |-> m]

\* the except clauses of the try block
ExceptionResponse(kind, m) ==
    IF kind = "LLMClientError"
    THEN [status |-> 503, detail |-> "An error occurred with the AI model: ", msg |-> m]
    ELSE [status |-> 500, detail |-> "An unexpected server error occurred: ", msg |-> m]

\* a stage of the try block raises: the matching except clause answers
StageRaises(stage, kind, m) ==
    /\ calls' = Append(calls, [stage |-> stage, result |-> kind])
    /\ raised' = [kind |-> kind, msg |-> m]
    /\ response' = ExceptionResponse(kind, m)
    /\ hpc' = "done"
    /\ UNCHANGED <<structured_purpose, match_report, explainer_args>>

\* code_analysis = CodeAnalyzer(code_to_explain).analyze(): no text-generation call
RunAnalysis ==
    /\ hpc = "analysis"
    /\ \/ /\ calls' = Append(calls, [stage |-> "analysis", result |-> "ok"])
          /\ hpc' = NextStage("analysis")
          /\ UNCHANGED <<structured_purpose, match_report, explainer_args, raised, response>>
       \/ \E m \in Msgs : StageRaises("analysis", "Exception", m)
    /\ UNCHANGED <<syntax_ok, api_key, code_tokens, estimator_up, user_purpose, checks_run>>

\* structured_purpose = purpose_analyzer.analyze_purpose(user_purpose)
RunPurpose ==
    /\ hpc = "purpose"
    /\ \/ /\ calls' = Append(calls, [stage |-> "purpose", result |-> "ok"])
          /\ structured_purpose' = "structured"
          /\ hpc' = NextStage("purpose")
          /\ UNCHANGED <<match_report, explainer_args, raised, response>>
       \/ \E k \in {"LLMClientError", "Exception"}, m \in Msgs : StageRaises("purpose", k, m)
    /\ UNCHANGED <<syntax_ok, api_key, code_tokens, estimator_up, user_purpose, checks_run>>

\* match_report = matcher.generate_match_report(structured_purpose, code_analysis)
RunMatcher ==
    /\ hpc = "matcher"
    /\ \/ /\ calls' = Append(calls, [stage |-> "matcher", result |-> "ok"])
          /\ match_report' = "report"
          /\ hpc' = NextStage("matcher")
          /\ UNCHANGED <<structured_purpose, explainer_args, raised, response>>
       \/ \E k \in {"LLMClientError", "Exception"}, m \in Msgs : StageRaises("matcher", k, m)
    /\ UNCHANGED <<syntax_ok, api_key, code_tokens, estimator_up, user_purpose, checks_run>>

\* explanation = explainer.generate_explanation(...); return {"explanation": explanation}
RunExplainer ==
    /\ hpc = "explainer"
    /\ \/ /\ calls' = Append(calls, [stage |-> "explainer", result |-> "ok"])
          /\ explainer_args' = <<structured_purpose, match_report>>
          /\ response' = [status |-> 200, detail |-> "explanation", msg |-> "text"]
          /\ hpc' = NextStage("explainer")
          /\ UNCHANGED <<structured_purpose, match_report, raised>>
       \/ /\ explainer_args' = <<structured_purpose, match_report>>
          /\ \E k \in {"LLMClientError", "Exception"}, m \in Msgs :
                /\ calls' = Append(calls, [stage |-> "explainer", result |-> k])
                /\ raised' = [kind |-> k, msg |-> m]
                /\ response' = ExceptionResponse(k, m)
                /\ hpc' = "done"
          /\ UNCHANGED <<structured_purpose, match_report>>
    /\ UNCHANGED <<syntax_ok, api_key, code_tokens, estimator_up, user_purpose, checks_run>>

NextExplain ==
    \/ CheckSyntax /\ UNCHANGED <<chunkVars, analyzeVars>>
    \/ CheckApiKey /\ UNCHANGED <<chunkVars, analyzeVars>>
    \/ CheckSize /\ UNCHANGED <<chunkVars, analyzeVars>>
    \/ RunAnalysis /\ UNCHANGED <<chunkVars, analyzeVars>>
    \/ RunPurpose /\ UNCHANGED <<chunkVars, analyzeVars>>
    \/ RunMatcher /\ UNCHANGED <<chunkVars, analyzeVars>>
    \/ RunExplainer /\ UNCHANGED <<chunkVars, analyzeVars>>

SpecExplain == InitExplain /\ [][NextExplain]_vars

(***************************************************************************)
(* The structural analyzer, code_analyzer.CodeAnalyzer.                    *)
(*                                                                         *)
(* The source text is built statement by statement, as the parser reads    *)
(* it.  A physical line is "blank", "comment" (a comment-only line),       *)
(* "code", or "strhash": a line inside a multi-line string literal whose   *)
(* stripped text starts with `#`.  `tree` holds the statement nodes in     *)
(* depth-first, parent-before-child order (parent 0 is the Module); the    *)
(* expression nodes below a statement are kept in its node: calls are the  *)
(* Call nodes of its own expressions, deco_calls those of its decorators,  *)
(* name_nodes its Name nodes.                                              *)
(***************************************************************************)
MaxItems == 3
MaxDepth == 2

FuncNames == {"f", "g"}
Seeds == {0, 1}

Range(f) == { f[i] : i \in DOMAIN f }

\* an ast.Call node: the class of its func, and the name called (the id of a
\* Name, the attr of an Attribute)
Call(func, id) == [func |-> func, id |-> id]

\* an ast.Name node: its id and the class of its ctx
Name(id, ctx) == [id |-> id, ctx |-> ctx]

Stmt(kind, call_nodes, name_nodes, names, module, extra_line, inline) ==
    [kind |-> kind, calls |-> call_nodes, name_nodes |-> name_nodes, names |-> names,
     module |-> module, extra_line |-> extra_line, inline |-> inline]

\* the simple statements of the inputs:
\*   f()   g()   o.f()   return   for i in x: y = 1   import a, b
\*   from m import a, b   and   x = """<newline># text"""
SimpleShapes ==
    { Stmt("Expr", <<Call("Name", n)>>, <<Name(n, "Load")>>, <<>>, "", "none", "none") :
        n \in FuncNames }
    \cup { Stmt("Expr", <<Call("Attribute", "f")>>, <<Name("o", "Load")>>, <<>>, "",
                "none", "none"),
           Stmt("Return", <<>>, <<>>, <<>>, "", "none", "none"),
           Stmt("For", <<>>, <<Name("i", "Store"), Name("x", "Load")>>, <<>>, "",
                "none", "Assign"),
           Stmt("Import", <<>>, <<>>, <<"a", "b">>, "", "none", "none"),
           Stmt("ImportFrom", <<>>, <<>>, <<"a", "b">>, "m", "none", "none"),
           Stmt("Assign", <<>>, <<Name("x", "Store")>>, <<>>, "", "strhash", "none") }

\* the definition headers of the inputs:
\*   def f(a, b):   @d()<newline>def f(a, b):   async def f(a, b):   (and g)
DefShapes ==
    { [kind |-> "FunctionDef", name |-> n, deco |-> d] : n \in FuncNames, d \in BOOLEAN }
    \cup { [kind |-> "AsyncFunctionDef", name |-> n, deco |-> FALSE] : n \in FuncNames }

Node(kind, parent, lineno, end_lineno, name, params, call_nodes, deco_calls, name_nodes, names, module) ==
    [kind |-> kind, parent |-> parent, lineno |-> lineno, end_lineno |-> end_lineno,
     name |-> name, params |-> params, calls |-> call_nodes,
     deco_calls |-> deco_calls, name_nodes |-> name_nodes, names |-> names,
     module |-> module]

\* what the source holds so far: statement nodes plus blank and comment lines
Items ==
    Len(tree) + Cardinality({ i \in 1..Len(src_lines) : src_lines[i] \in {"blank", "comment"} })

CurrentParent == IF open_defs = <<>> THEN 0 ELSE open_defs[Len(open_defs)]

HasBody(t, i) == \E j \in 1..Len(t) : t[j].parent = i

\* a statement ending on line `last` ends every definition it is nested in
ExtendOpen(t, last) ==
    [i \in 1..Len(t) |->
        IF i \in Range(open_defs) THEN [t[i] EXCEPT !.end_lineno = last] ELSE t[i]]

InitAnalyze ==
    /\ ChunkIdle
    /\ max_tokens = 1
    /\ ExplainIdle
    /\ src_lines = <<>>
    /\ tree = <<>>
    /\ open_defs = <<>>
    /\ apc = "build"
    /\ hash_seed = 0
    /\ temp_line_data = <<>>
    /\ analysis = EmptyAnalysis
    /\ run_no = 1
    /\ first_result = EmptyAnalysis

\* the source goes on with a blank or a comment-only line
AddLine ==
    /\ apc = "build"
    /\ Items < MaxItems
    /\ \E cls \in {"blank", "comment"} : src_lines' = Append(src_lines, cls)
    /\ UNCHANGED <<tree, open_defs, apc, hash_seed, temp_line_data, analysis, run_no,
                   first_result>>

\* the source goes on with a simple statement
AddSimple ==
    /\ apc = "build"
    /\ \E sh \in SimpleShapes :
        LET l == Len(src_lines) + 1
            e == IF sh.extra_line = "none" THEN l ELSE l + 1
            me == Len(tree) + 1
            nd == Node(sh.kind, CurrentParent, l, e, "", <<>>, sh.calls, <<>>,
                       sh.name_nodes, sh.names, sh.module)
            kids == IF sh.inline = "none" THEN <<>>
                    ELSE <<Node(sh.inline, me, l, l, "", <<>>, <<>>, <<>>,
                                <<Name("y", "Store")>>, <<>>, "")>>
        IN  /\ Items + 1 + Len(kids) <= MaxItems
            /\ src_lines' = src_lines \o <<"code">>
                            \o (IF sh.extra_line = "none" THEN <<>> ELSE <<sh.extra_line>>)
            /\ tree' = ExtendOpen(tree, e) \o <<nd>> \o kids
    /\ UNCHANGED <<open_defs, apc, hash_seed, temp_line_data, analysis, run_no,
                   first_result>>

\* the source goes on with the header of a (possibly decorated) definition:
\* `@d()` on a line of its own, then `def name(a, b):`; node.lineno is the
\* line of `def`
OpenDef ==
    /\ apc = "build"
    /\ Items < MaxItems
    /\ Len(open_defs) < MaxDepth
    /\ \E sh \in DefShapes :
        LET l == Len(src_lines) + (IF sh.deco THEN 2 ELSE 1)
            nd == Node(sh.kind, CurrentParent, l, l, sh.name, <<"a", "b">>, <<>>,
                       IF sh.deco THEN <<Call("Name", "d")>> ELSE <<>>,
                       IF sh.deco THEN <<Name("d", "Load")>> ELSE <<>>, <<>>, "")
        IN  /\ src_lines' = src_lines \o (IF sh.deco THEN <<"code">> ELSE <<>>) \o <<"code">>
            /\ tree' = ExtendOpen(tree, l) \o <<nd>>
            /\ open_defs' = Append(open_defs, Len(tree) + 1)
    /\ UNCHANGED <<apc, hash_seed, temp_line_data, analysis, run_no, first_result>>

\* the body of the innermost definition ends
CloseDef ==
    /\ apc = "build"
    /\ open_defs # <<>>
    /\ HasBody(tree, CurrentParent)
    /\ open_defs' = SubSeq(open_defs, 1, Len(open_defs) - 1)
    /\ UNCHANGED <<src_lines, tree, apc, hash_seed, temp_line_data, analysis, run_no,
                   first_result>>

\* line_content.strip() is empty / starts with '#'
StrippedEmpty(cls) == cls = "blank"
StartsWithHash(cls) == cls \in {"comment", "strhash"}

\* CodeAnalyzer.__init__: one record, with no types yet, for each line whose
\* stripped text is not empty and does not start with '#'
InitLineData ==
    [i \in { k \in 1..Len(src_lines) :
                ~StrippedEmpty(src_lines[k]) /\ ~StartsWithHash(src_lines[k]) } |-> <<>>]

\* a process starts with some hash seed and constructs the analyzer on the source
Construct ==
    /\ apc = "build"
    /\ \A i \in Range(open_defs) : HasBody(tree, i)
    /\ \E seed \in Seeds : hash_seed' = seed
    /\ temp_line_data' = InitLineData
    /\ analysis' = EmptyAnalysis
    /\ apc' = "ready"
    /\ UNCHANGED <<src_lines, tree, open_defs, run_no, first_result>>

STATEMENT_NODE_TYPE_MAP(kind) ==
    CASE kind = "FunctionDef"      -> "Function Definition"
      [] kind = "AsyncFunctionDef" -> "Async Function Definition"
      [] kind = "Return"           -> "Return Statement"
      [] kind = "Assign"           -> "Assignment"
      [] kind = "For"              -> "For Loop"
      [] kind = "Expr"             -> "Expression Statement"
      [] kind = "Import"           -> "Import Statement"
      [] kind = "ImportFrom"       -> "Import From Statement"
      [] OTHER                     -> "none"

\* whether node j lies in the subtree of node i (ast.walk(node) yields node itself)
RECURSIVE InSubtree(_, _, _)
InSubtree(t, i, j) ==
    IF j = i THEN TRUE
    ELSE IF j = 0 THEN FALSE
    ELSE InSubtree(t, i, t[j].parent)

Subtree(t, i) == { j \in 1..Len(t) : InSubtree(t, i, j) }

RECURSIVE Depth(_, _)
Depth(t, i) == IF i = 0 THEN 0 ELSE 1 + Depth(t, t[i].parent)

\* the order of the names of a string set (or of list(set(...))) in a process
\* whose hash seed is `seed`
NameOrder == <<"a", "b", "d", "f", "g", "i", "m", "o", "x", "y">>

Reverse(q) == [i \in 1..Len(q) |-> q[Len(q) + 1 - i]]

ListOfSet(seed, S) ==
    LET In(n) == n \in S
        base == SelectSeq(NameOrder, In)
    IN  IF seed = 0 THEN base ELSE Reverse(base)

\* ast.walk(tree) is breadth-first: by depth, then in source order
RECURSIVE WalkOrder(_, _)
WalkOrder(t, d) ==
    IF d > Len(t) THEN <<>>
    ELSE LET At(i) == Depth(t, i) = d
         IN  SelectSeq([i \in 1..Len(t) |-> i], At) \o WalkOrder(t, d + 1)

\* _analyze_high_level
HighLevelSummary ==
    LET order == WalkOrder(tree, 1)
        IsImport(i) == tree[i].kind = "Import"
        IsFrom(i) == tree[i].kind = "ImportFrom"
        imps == SelectSeq(order, IsImport)
        froms == SelectSeq(order, IsFrom)
    IN  [imports |-> [k \in 1..Len(imps) |-> <<tree[imps[k]].names[1]>>]
                     \o [k \in 1..Len(froms) |->
                            <<tree[froms[k]].module, tree[froms[k]].names[1]>>],
         class_definitions |-> <<>>,
         total_functions |-> Cardinality({ i \in 1..Len(tree) : tree[i].kind = "FunctionDef" }),
         total_lines |-> Len(src_lines)]

\* FunctionRecord without the isinstance(sub_node.func, ast.Name) test: a call
\* through an attribute contributes the attribute's name
FunctionRecord_AnyCall(t, i, seed) ==
    LET sub == Subtree(t, i)
        walked_calls == UNION { Range(t[j].calls) \cup Range(t[j].deco_calls) : j \in sub }
        names_seen == UNION { Range(t[j].name_nodes) : j \in sub }
        called == { c.id : c \in walked_calls }
        used == { n.id : n \in { x \in names_seen : x.ctx = "Load" } }
    IN  [parameters |-> t[i].params,
         return_statements |-> Cardinality({ j \in sub : t[j].kind = "Return" }),
         start_line |-> t[i].lineno,
         dependencies |-> [calls |-> ListOfSet(seed, called),
                           uses_variables |-> ListOfSet(seed, used)]]

\* the record visit_FunctionDef stores for node i
FunctionRecord(t, i, seed) ==
    LET sub == Subtree(t, i)
        walked_calls == UNION { Range(t[j].calls) \cup Range(t[j].deco_calls) : j \in sub }
        names_seen == UNION { Range(t[j].name_nodes) : j \in sub }
        called == { c.id : c \in { x \in walked_calls : x.func = "Name" } }
        used == { n.id : n \in { x \in names_seen : x.ctx = "Load" } }
    IN  [parameters |-> t[i].params,
         return_statements |-> Cardinality({ j \in sub : t[j].kind = "Return" }),
         start_line |-> t[i].lineno,
         dependencies |-> [calls |-> ListOfSet(seed, called),
                           uses_variables |-> ListOfSet(seed, used)]]

\* self.analysis["functions"][function_name] = record
PutFunction(fs, name, rec) ==
    [n \in DOMAIN fs \cup {name} |-> IF n = name THEN rec ELSE fs[n]]

\* LabelLines without the `node_type_name not in ...["types"]` test: a label
\* is appended once for every node that carries it
LabelLines_Repeating(tld, nd) ==
    LET label == STATEMENT_NODE_TYPE_MAP(nd.kind)
    IN  IF label = "none" THEN tld
        ELSE [i \in DOMAIN tld |->
                IF nd.lineno <= i /\ i <= nd.end_lineno
                THEN Append(tld[i], label)
                ELSE tld[i]]

\* generic_visit: the node's label goes to every recorded line it spans that
\* does not have it yet
LabelLines(tld, nd) ==
    LET label == STATEMENT_NODE_TYPE_MAP(nd.kind)
    IN  IF label = "none" THEN tld
        ELSE [i \in DOMAIN tld |->
                IF nd.lineno <= i /\ i <= nd.end_lineno /\ label \notin Range(tld[i])
                THEN Append(tld[i], label)
                ELSE tld[i]]

\* NodeVisitor.visit dispatches on the node's class: visit_FunctionDef exists,
\* every other class goes to generic_visit
VisitsFunctionDef(kind) == kind = "FunctionDef"

\* self.visit(node) for node i, children excluded
VisitNode(t, i, seed, st) ==
    [functions |-> IF VisitsFunctionDef(t[i].kind)
                   THEN PutFunction(st.functions, t[i].name, FunctionRecord(t, i, seed))
                   ELSE st.functions,
     tld |-> LabelLines(st.tld, t[i])]

\* self.visit(self.tree): the nodes in depth-first, parent-before-child order
RECURSIVE VisitFrom(_, _, _, _)
VisitFrom(t, i, seed, st) ==
    IF i > Len(t) THEN st ELSE VisitFrom(t, i + 1, seed, VisitNode(t, i, seed, st))

RECURSIVE SortedSeq(_)
SortedSeq(S) ==
    IF S = {} THEN <<>>
    ELSE LET m == CHOOSE x \in S : \A y \in S : x <= y
         IN  <<m>> \o SortedSeq(S \ {m})

\* _finalize_line_by_line: types default to "Code"; the records of
\* line_by_line are the very records of _temp_line_data
Defaulted(tld) == [i \in DOMAIN tld |-> IF tld[i] = <<>> THEN <<"Code">> ELSE tld[i]]

LineByLine(tld) ==
    LET order == SortedSeq(DOMAIN tld)
    IN  [k \in 1..Len(order) |->
            [line_number |-> order[k], content |-> src_lines[order[k]],
             types |-> Defaulted(tld)[order[k]]]]

\* analyze(): _analyze_high_level, visit(tree), _finalize_line_by_line
AnalyzeResult(tld) ==
    LET walked == VisitFrom(tree, 1, hash_seed, [functions |-> <<>>, tld |-> tld])
    IN  [analysis |-> [high_level_summary |-> HighLevelSummary,
                       functions |-> [n \in DOMAIN walked.functions \cup DOMAIN analysis.functions |->
                                        IF n \in DOMAIN walked.functions
                                        THEN walked.functions[n] ELSE analysis.functions[n]],
                       line_by_line |-> LineByLine(walked.tld)],
         tld |-> Defaulted(walked.tld)]

\* the first analyze() of an analyzer
Analyze ==
    /\ apc = "ready"
    /\ LET r == AnalyzeResult(temp_line_data)
       IN  /\ analysis' = r.analysis
           /\ temp_line_data' = r.tld
           /\ first_result' = IF run_no = 1 THEN r.analysis ELSE first_result
    /\ apc' = "done"
    /\ UNCHANGED <<src_lines, tree, open_defs, hash_seed, run_no>>

\* analyze() is called a second time on the same analyzer
AnalyzeAgain ==
    /\ apc = "done"
    /\ run_no = 1
    /\ LET r == AnalyzeResult(temp_line_data)
       IN  /\ analysis' = r.analysis
           /\ temp_line_data' = r.tld
    /\ run_no' = 2
    /\ UNCHANGED <<src_lines, tree, open_defs, apc, hash_seed, first_result>>

\* the same source is analysed again by a fresh analyzer in a new process
Restart ==
    /\ apc = "done"
    /\ run_no = 1
    /\ \E seed \in Seeds : hash_seed' = seed
    /\ temp_line_data' = InitLineData
    /\ analysis' = EmptyAnalysis
    /\ run_no' = 2
    /\ apc' = "ready"
    /\ UNCHANGED <<src_lines, tree, open_defs, first_result>>

NextAnalyze ==
    \/ AddLine /\ UNCHANGED <<chunkVars, explainVars>>
    \/ AddSimple /\ UNCHANGED <<chunkVars, explainVars>>
    \/ OpenDef /\ UNCHANGED <<chunkVars, explainVars>>
    \/ CloseDef /\ UNCHANGED <<chunkVars, explainVars>>
    \/ Construct /\ UNCHANGED <<chunkVars, explainVars>>
    \/ Analyze /\ UNCHANGED <<chunkVars, explainVars>>

SpecAnalyze == InitAnalyze /\ [][NextAnalyze]_vars

\* the analysis of a source, followed by a second analysis of the same source
NextRerun ==
    \/ NextAnalyze
    \/ AnalyzeAgain /\ UNCHANGED <<chunkVars, explainVars>>
    \/ Restart /\ UNCHANGED <<chunkVars, explainVars>>

SpecRerun == InitAnalyze /\ [][NextRerun]_vars

(***************************************************************************)
(* Properties of the chunk planner (SpecChunk).                            *)
(***************************************************************************)
IsPrefix(a, b) == Len(a) <= Len(b) /\ SubSeq(b, 1, Len(a)) = a

IsInfix(a, c) == \E o \in 0..(Len(c) - Len(a)) : SubSeq(c, o + 1, o + Len(a)) = a

NoDuplicates(q) == \A i, j \in 1..Len(q) : q[i] = q[j] => i = j

\* the planner returned from its loop over the top-level units
Intelligent == cpc = "done" /\ outcome = "intelligent"

\* the text of unit i, and of the run of units i..j, as the planner joins them
UnitText(i) == node_lines(body[i])
RunText(i, j) == Flatten([k \in 1..(j - i + 1) |-> UnitText(i + k - 1)])

\* the lines of statement i in the source, decorators included, as lines of
\* code.splitlines()
StmtSpan(i) ==
    [k \in 1..(body[i].end_lineno - body[i].first + 1) |->
        ParserLines(line_tokens)[body[i].first + k - 1]]

\* the source's top-level statements: every line of a statement, once, in order
StatementLines ==
    SortedSeq(UNION { Range(StmtSpan(i)) : i \in 1..Len(body) })

\* C1: every chunk of an over-budget parseable input is either one top-level
\* unit whose own estimate exceeds max_tokens, or a run of consecutive
\* top-level units whose estimated size does not exceed max_tokens.
C1_ChunksWithinBudget ==
    Intelligent =>
        \A k \in 1..Len(returned) :
            \/ \E i \in 1..Len(body) :
                  /\ returned[k] = UnitText(i)
                  /\ estimate_tokens(UnitText(i)) > max_tokens
            \/ \E i \in 1..Len(body), j \in 1..Len(body) :
                  /\ i <= j
                  /\ returned[k] = RunText(i, j)
                  /\ estimate_tokens(returned[k]) <= max_tokens

\* C2: the chunks, concatenated in order, reproduce the source's top-level
\* statements exactly: each statement once, in source order, wholly inside
\* one chunk.
C2_ChunksReproduceStatements ==
    Intelligent =>
        /\ Flatten(returned) = StatementLines
        /\ \A i \in 1..Len(body) :
              \E k \in 1..Len(returned) : IsInfix(StmtSpan(i), returned[k])

\* C3: when the estimator fails, on the whole input or on a unit, the call
\* ends in TokenManagerError and returns no chunks, naive or partial.
C3_EstimatorFailureIsTokenManagerError ==
    (cpc = "done" /\ est_failed # "none") =>
        /\ outcome = "TokenManagerError"
        /\ returned = <<>>

\* C13: an input whose whole-text estimate is within max_tokens is returned
\* as one chunk, the input itself, with no further work: the planner never
\* reaches the parse or the loop over the units, whether or not the text is
\* syntactically valid.
C13_WithinBudgetSingleChunk ==
    (cpc # "start" /\ est_failed # "whole" /\ estimate_tokens(Lines) <= max_tokens)
        => /\ cpc = "done"
           /\ outcome = "single"
           /\ returned = <<Lines>>
           /\ est_failed = "none"
           /\ node_idx = 0
           /\ chunks = <<>>

\* a text of several lines that is within budget and not syntactically valid
\* came back as the single chunk
C13_Witness ==
    /\ cpc = "done"
    /\ outcome = "single"
    /\ ~parseable
    /\ Len(line_tokens) > 1
    /\ returned = <<Lines>>

\* C14: an over-budget input that cannot be parsed comes back as consecutive
\* blocks of exactly NaiveBlock lines, the last possibly shorter, which in
\* order reproduce every line once; the naive path is taken on a parse
\* failure and on no other failure.
C14_NaiveBlocks ==
    /\ (cpc = "done" /\ outcome = "naive")
         => /\ ~parseable
            /\ est_failed = "none"
            /\ Flatten(returned) = Lines
            /\ \A k \in 1..Len(returned) :
                  /\ Len(returned[k]) >= 1
                  /\ Len(returned[k]) <= NaiveBlock
                  /\ k < Len(returned) => Len(returned[k]) = NaiveBlock
    /\ (cpc = "done" /\ ~parseable /\ est_failed = "none"
          /\ estimate_tokens(Lines) > max_tokens)
         => outcome = "naive"

\* an unparseable input of more than two blocks: full blocks, then a shorter one
C14_Witness ==
    /\ cpc = "done"
    /\ outcome = "naive"
    /\ Len(line_tokens) > 2 * NaiveBlock
    /\ Len(returned) = 3
    /\ Len(returned[3]) < NaiveBlock

\* the sum of the estimates of the units i..j
RunEstimate(i, j) == SumSeq([k \in 1..(j - i + 1) |-> estimate_tokens(UnitText(i + k - 1))])

\* a chunk whose text, its lines joined by newlines, is the empty string
EmptyText(c) == c = <<>> \/ (Len(c) = 1 /\ line_tokens[c[1]] = 0)

\* C15: between the iterations of the loop over the top-level units the
\* pending counter is the sum of the estimates of the units in the pending
\* accumulation and is at most max_tokens, it is zero exactly when the
\* accumulation is empty (if every unit's estimate is positive), and no
\* chunk of the output is empty.
C15_PendingCounter ==
    /\ cpc = "loop"
         => /\ \E k \in 1..node_idx :
                  /\ current_chunk_lines = RunText(k, node_idx - 1)
                  /\ current_chunk_tokens = RunEstimate(k, node_idx - 1)
            /\ current_chunk_tokens <= max_tokens
            /\ (\A i \in 1..Len(body) : estimate_tokens(UnitText(i)) > 0)
                  => (current_chunk_tokens = 0 <=> current_chunk_lines = <<>>)
            /\ \A c \in 1..Len(chunks) : ~EmptyText(chunks[c])
    /\ Intelligent => \A c \in 1..Len(returned) : ~EmptyText(returned[c])

(***************************************************************************)
(* Properties of the /explain/ handler (SpecExplain).                      *)
(***************************************************************************)
SizeCheck == validate_input_size(estimator_up, code_tokens)

AllChecksPass == syntax_ok /\ Truthy(api_key) /\ SizeCheck = "True"

Stages == [k \in 1..Len(calls) |-> calls[k].stage]

\* the stages of a successful request, with and without a purpose
StageOrder(with_purpose) ==
    IF with_purpose THEN <<"analysis", "purpose", "matcher", "explainer">>
    ELSE <<"analysis", "explainer">>

\* C4: the checks run in the order syntax, API key, input size; the first
\* failing check alone decides the response (400, 500, 413), and when a check
\* fails no analysis is attempted and no text-generation call is made.
C4_FirstFailingCheckDecides ==
    /\ IsPrefix(checks_run, <<"syntax", "apikey", "size">>)
    /\ hpc = "done" =>
        /\ ~syntax_ok =>
              /\ checks_run = <<"syntax">>
              /\ response.status = 400
              /\ response.detail = "Invalid Python Code Syntax"
        /\ (syntax_ok /\ ~Truthy(api_key)) =>
              /\ checks_run = <<"syntax", "apikey">>
              /\ response.status = 500
              /\ response.detail
                   = "API key is not configured on the server. Please set GEMINI_API_KEY."
        /\ (syntax_ok /\ Truthy(api_key) /\ SizeCheck = "False") =>
              /\ checks_run = <<"syntax", "apikey", "size">>
              /\ response.status = 413
              /\ response.detail = "Input code exceeds the maximum allowed size."
        /\ ~AllChecksPass => calls = <<>>

\* a request without an API key whose code is also too large is answered by
\* the API-key check
C4_Witness ==
    /\ hpc = "done"
    /\ syntax_ok
    /\ api_key = "unset"
    /\ code_tokens > max_tokens
    /\ response.status = 500
    /\ checks_run = <<"syntax", "apikey">>

\* C5: once the checks pass, an LLMClientError of any stage gives 503 with the
\* original message, any other failure gives 500 with the original message,
\* and 200 with an explanation is returned only when every stage completed.
C5_PipelineFailureMapping ==
    (hpc = "done" /\ AllChecksPass) =>
        /\ calls # <<>>
        /\ LET last == calls[Len(calls)]
           IN  /\ last.result = "LLMClientError" =>
                     /\ response.status = 503
                     /\ response.detail = "An error occurred with the AI model: "
                     /\ response.msg = raised.msg
                     /\ raised.kind = "LLMClientError"
               /\ last.result = "Exception" =>
                     /\ response.status = 500
                     /\ response.detail = "An unexpected server error occurred: "
                     /\ response.msg = raised.msg
                     /\ raised.kind = "Exception"
               /\ response.status = 200 <=>
                     /\ \A k \in 1..Len(calls) : calls[k].result = "ok"
                     /\ last.stage = "explainer"
               /\ response.status = 200 => response.detail = "explanation"

\* the matcher's text-generation call fails after analysis and purpose
\* structuring succeeded
C5_Witness ==
    /\ hpc = "done"
    /\ AllChecksPass
    /\ Stages = <<"analysis", "purpose", "matcher">>
    /\ calls[3].result = "LLMClientError"
    /\ response.status = 503
    /\ response.msg = "m2"

\* C6 as stated: the stages run in the order analysis, purpose structuring,
\* matching, explanation; with a purpose supplied both purpose stages run
\* before the explanation, with none supplied neither runs and the explainer
\* receives no purpose and no match report.
C6_StagesFollowSuppliedPurpose ==
    LET supplied == user_purpose # "None"
    IN  /\ IsPrefix(Stages, StageOrder(supplied))
        /\ (hpc = "done" /\ response.status = 200) =>
              /\ Stages = StageOrder(supplied)
              /\ ~supplied => explainer_args = <<"None", "None">>

\* C6 as amended: the purpose stages run exactly when the purpose is a
\* non-empty string; a missing or empty purpose skips both, and the
\* explainer then receives no purpose and no match report.
C6_StagesFollowNonEmptyPurpose ==
    LET given == Truthy(user_purpose)
    IN  /\ IsPrefix(Stages, StageOrder(given))
        /\ (hpc = "done" /\ response.status = 200) =>
              /\ Stages = StageOrder(given)
              /\ given => explainer_args = <<"structured", "report">>
              /\ ~given => explainer_args = <<"None", "None">>

\* a successful request with a purpose went through all four stages
C6_Witness ==
    /\ hpc = "done"
    /\ response.status = 200
    /\ user_purpose = "text"
    /\ Stages = <<"analysis", "purpose", "matcher", "explainer">>
    /\ explainer_args = <<"structured", "report">>

(***************************************************************************)
(* Properties of the structural analyzer (SpecAnalyze, SpecRerun).         *)
(***************************************************************************)
Categorised(i) == STATEMENT_NODE_TYPE_MAP(tree[i].kind) # "none"

Spans(i, l) == tree[i].lineno <= l /\ l <= tree[i].end_lineno

FunctionDefs == { i \in 1..Len(tree) : tree[i].kind \in {"FunctionDef", "AsyncFunctionDef"} }

\* the node of the last definition named n that visit_FunctionDef handles
Recorded(n) ==
    CHOOSE i \in 1..Len(tree) :
        /\ tree[i].kind = "FunctionDef" /\ tree[i].name = n
        /\ \A j \in 1..Len(tree) :
              (tree[j].kind = "FunctionDef" /\ tree[j].name = n) => j <= i

\* the names called directly, by bare name, in the given statements and in
\* their decorators
BareCallees(nodes) ==
    { c.id : c \in { x \in UNION { Range(tree[j].calls) \cup Range(tree[j].deco_calls) :
                                     j \in nodes } :
                       x.func = "Name" } }

\* the calls in the body of definition i: its statements, nested definitions
\* and their decorators included
BodyCallees(i) == BareCallees(Subtree(tree, i) \ {i})

\* the calls anywhere in definition i: its body and its own decorators
DefinitionCallees(i) == BareCallees(Subtree(tree, i))

\* C7: line_by_line is strictly ascending in line_number, holds a record for
\* exactly the physical lines that are neither blank nor comment-only, and
\* every record has a non-empty types list, which is <<"Code">> exactly when
\* no categorised node spans the line.
C7_LineByLine ==
    apc = "done" =>
        LET lbl == analysis.line_by_line
        IN  /\ \A k \in 1..(Len(lbl) - 1) : lbl[k].line_number < lbl[k + 1].line_number
            /\ { lbl[k].line_number : k \in 1..Len(lbl) }
                 = { l \in 1..Len(src_lines) : src_lines[l] \notin {"blank", "comment"} }
            /\ \A k \in 1..Len(lbl) :
                  /\ lbl[k].types # <<>>
                  /\ lbl[k].types = <<"Code">>
                       <=> ~\E i \in 1..Len(tree) : Categorised(i) /\ Spans(i, lbl[k].line_number)

\* C8: functions has a record for every function definition, plain or async,
\* at any depth, keyed by name; of two definitions of one name the later in
\* depth-first order is the one recorded.
C8_FunctionRecords ==
    apc = "done" =>
        /\ DOMAIN analysis.functions = { tree[i].name : i \in FunctionDefs }
        /\ \A n \in DOMAIN analysis.functions :
              \E i \in FunctionDefs :
                 /\ tree[i].name = n
                 /\ \A j \in FunctionDefs : tree[j].name = n => j <= i
                 /\ analysis.functions[n].start_line = tree[i].lineno

\* C9 as stated: dependencies.calls holds a name exactly when the function's
\* body has a direct call of that bare name, each name once.
C9_CallsAreBodyCalls ==
    apc = "done" =>
        \A n \in DOMAIN analysis.functions :
            LET listed == analysis.functions[n].dependencies.calls
            IN  /\ Range(listed) = BodyCallees(Recorded(n))
                /\ NoDuplicates(listed)

\* C9 as amended: dependencies.calls holds a name exactly when the function
\* definition (its decorators as well as its body, nested definitions
\* included) has a direct call of that bare name; calls through attributes
\* contribute nothing, each name appears once, and a function calling itself
\* by bare name lists its own name.
C9_CallsAreDefinitionCalls ==
    apc = "done" =>
        \A n \in DOMAIN analysis.functions :
            LET listed == analysis.functions[n].dependencies.calls
                i == Recorded(n)
            IN  /\ Range(listed) = DefinitionCallees(i)
                /\ NoDuplicates(listed)
                /\ (\E j \in Subtree(tree, i) : Call("Name", n) \in Range(tree[j].calls))
                      => n \in Range(listed)

\* a decorated function f that calls itself and calls through an attribute:
\* its calls list names its decorator and itself, not the attribute
C9_Witness ==
    /\ apc = "done"
    /\ "f" \in DOMAIN analysis.functions
    /\ tree[Recorded("f")].deco_calls # <<>>
    /\ \E j \in Subtree(tree, Recorded("f")) : Call("Attribute", "f") \in Range(tree[j].calls)
    /\ Range(analysis.functions["f"].dependencies.calls) = {"d", "f"}
    /\ BodyCallees(Recorded("f")) = {"f"}

\* C10: a second analysis of the same source, by a fresh analyzer or by a
\* second analyze() on the same analyzer, returns what the first returned,
\* the order inside every list included.
C10_SecondAnalysisIdentical ==
    (apc = "done" /\ run_no = 2) => analysis = first_result

\* the entries the imports list owes to statement i: <<name>> stands for the
\* module name of a plain import, <<module, member>> for 'module.member'
ImportedNames(i) ==
    IF tree[i].kind = "Import" THEN { <<tree[i].names[k]>> : k \in DOMAIN tree[i].names }
    ELSE IF tree[i].kind = "ImportFrom"
         THEN { <<tree[i].module, tree[i].names[k]>> : k \in DOMAIN tree[i].names }
         ELSE {}

\* C11: the imports list of the high-level summary has an entry for every
\* imported name of every import statement anywhere in the tree, also when
\* one statement imports several names.
C11_ImportsListEveryName ==
    apc = "done" =>
        Range(analysis.high_level_summary.imports)
            = UNION { ImportedNames(i) : i \in 1..Len(tree) }

\* a sequence without the later repetitions of its elements
RECURSIVE FirstOccurrences(_)
FirstOccurrences(q) ==
    IF q = <<>> THEN <<>>
    ELSE LET front == FirstOccurrences(SubSeq(q, 1, Len(q) - 1))
             last == q[Len(q)]
         IN  IF last \in Range(front) THEN front ELSE Append(front, last)

\* the labels of the categorised nodes spanning line l, in depth-first,
\* parent-before-child order of their nodes, each label once
WalkLabels(l) ==
    LET Owns(i) == Categorised(i) /\ Spans(i, l)
        owners == SelectSeq([i \in 1..Len(tree) |-> i], Owns)
    IN  FirstOccurrences([k \in 1..Len(owners) |-> STATEMENT_NODE_TYPE_MAP(tree[owners[k]].kind)])

====
